---- MODULE Spec2Model ----
(***************************************************************************)
(* RolloutWorker of baselines/her/rollout.py as a state machine.           *)
(*                                                                         *)
(* One worker drives rollout_batch_size environments in lockstep for T     *)
(* timesteps.  The environments, the policy and the logger are external:   *)
(* an environment is a point that moves one unit per step and whose        *)
(* reward, done flag and success flag are chosen freely at every step; it  *)
(* may also raise a simulator fault or produce a NaN observation.          *)
(* Floats are integers: eps parameters are in tenths, means are kept as    *)
(* (sum, n) pairs.  Python indices i, t are 0-based in the source and      *)
(* arrays are 1-based sequences here; loc.t keeps the source's 0-based t.  *)
(***************************************************************************)
EXTENDS Integers, Sequences, FiniteSets, TLC

\* ---------------------------------------------------------------- bounds
MaxT == 3
MaxBatch == 2
MaxCells == 4
MaxCalls == 3
HistoryLen == 2
MaxConfigCalls == 4
\* every make_env closure is used by at least one later call
MaxFactories == MaxConfigCalls \div 2
MaxReplayK == 2
Grid == 4

\* ------------------------------------------------------ program constants
NoiseEps == 2
RandomEps == 3
One == 10
NaN == 99
Unset == 0 - 1
Empty == 0 - 9

\* ------------------------------------------------------------ environment
EnvGoals == {1, 2}
Rewards == {1, 2}

\* plain observations with an empty info; plain observations with cur_step
\* in info; goal-conditioned (dict) observations with is_success in info
EnvKinds ==
    {[dict |-> FALSE, is_success |-> FALSE, cur_step |-> FALSE],
     [dict |-> FALSE, is_success |-> FALSE, cur_step |-> TRUE],
     [dict |-> TRUE, is_success |-> TRUE, cur_step |-> FALSE]}

\* the exploring worker (no Q) and the evaluating worker (exploit, with Q)
WorkerKinds ==
    {[exploit |-> FALSE, compute_Q |-> FALSE],
     [exploit |-> TRUE, compute_Q |-> TRUE]}

\* a Python argument that is either the default False or an ndarray
PyFalse == [ndarray |-> FALSE, val |-> <<>>]
NdArray(v) == [ndarray |-> TRUE, val |-> v]

VARIABLES cfg, envs, g, initial_o, initial_ag,
          success_history, Q_history, episode_length_history,
          once_success_history, return_history, n_episodes,
          pc, call, loc, policy_log, warnings, episode, n_calls, completed,
          n_rollouts,
          CACHED_ENVS, make_env_calls, n_envs, env_returned, params,
          n_factories, n_config_calls, sample_her_transitions, transitions

vars == <<cfg, envs, g, initial_o, initial_ag,
          success_history, Q_history, episode_length_history,
          once_success_history, return_history, n_episodes,
          pc, call, loc, policy_log, warnings, episode, n_calls, completed,
          n_rollouts,
          CACHED_ENVS, make_env_calls, n_envs, env_returned, params,
          n_factories, n_config_calls, sample_her_transitions, transitions>>

rollout_vars == <<cfg, envs, g, initial_o, initial_ag,
                  success_history, Q_history, episode_length_history,
                  once_success_history, return_history, n_episodes,
                  pc, call, loc, policy_log, warnings, episode, n_calls,
                  completed, n_rollouts>>
config_vars == <<CACHED_ENVS, make_env_calls, n_envs, env_returned, params,
                 n_factories, n_config_calls, sample_her_transitions,
                 transitions>>

worker == <<g, initial_o, initial_ag>>
histories == <<success_history, Q_history, episode_length_history,
               once_success_history, return_history>>

Batch == 1 .. cfg.rollout_batch_size

RECURSIVE Sum(_)
Sum(s) == IF s = <<>> THEN 0 ELSE s[1] + Sum(Tail(s))

RECURSIVE Flatten(_)
Flatten(ss) == IF ss = <<>> THEN <<>> ELSE ss[1] \o Flatten(Tail(ss))

\* np.mean of a 1-d array, kept exact as sum over count
Mean(a) == [sum |-> Sum(a), n |-> Len(a)]

Zeros(n) == [i \in 1 .. n |-> 0]
Ones(n) == [i \in 1 .. n |-> 1]
Full(n, v) == [i \in 1 .. n |-> v]

\* ------------------------------------------------------- env.reset / step
EnvReset(kind, sampled) ==
    [goal |-> IF kind.dict THEN sampled ELSE 0, pos |-> 0]

EnvObs(kind, e) ==
    IF kind.dict
    THEN [dict |-> TRUE, observation |-> e.pos,
          achieved_goal |-> 2 * e.pos + 1, desired_goal |-> e.goal]
    ELSE [dict |-> FALSE, observation |-> e.pos,
          achieved_goal |-> 0, desired_goal |-> 0]

EnvMove(e) == [e EXCEPT !.pos = @ + 1]

\* an environment that reports cur_step counts two simulator steps per move,
\* so that its count is told apart from the worker's own t + 1
EnvInfo(kind, e, r) ==
    [has_success |-> kind.is_success, is_success |-> r.is_success,
     has_cur_step |-> kind.cur_step, cur_step |-> 2 * e.pos]

\* what one call of envs[i].step(u[i]) can do: return normally, return a NaN
\* observation, or raise MujocoException
StepResults ==
    [kind : {"ok"}, reward : Rewards, done : BOOLEAN,
     is_success : IF cfg.env.is_success THEN {0, 1} ELSE {0}]
    \cup [kind : {"nan", "fault"}, reward : {1}, done : {FALSE}, is_success : {0}]

StepObs(kind, e, r) ==
    IF r.kind = "nan" THEN [EnvObs(kind, e) EXCEPT !.observation = NaN]
    ELSE EnvObs(kind, e)

\* ------------------------------------------------------------ __init__
info_keys ==
    IF cfg.env.dict
    THEN (IF cfg.env.is_success THEN <<"is_success">> ELSE <<>>)
         \o (IF cfg.env.cur_step THEN <<"cur_step">> ELSE <<>>)
    ELSE <<>>

InfoOf(info, key) == IF key = "is_success" THEN info.is_success ELSE info.cur_step

\* ---------------------------------------------------------- reset_rollout
reset_rollout(w, i, generated_goal, sampled) ==
    LET e == EnvReset(cfg.env, sampled[i])
        obs == EnvObs(cfg.env, e)
    IN IF obs.dict
       THEN LET over == generated_goal.ndarray
                gi == IF over THEN generated_goal.val[i] ELSE obs.desired_goal
                ei == IF over THEN [e EXCEPT !.goal = generated_goal.val[i]] ELSE e
            IN [envs |-> [w.envs EXCEPT ![i] = ei],
                g |-> [w.g EXCEPT ![i] = gi],
                initial_o |-> [w.initial_o EXCEPT ![i] = obs.observation],
                initial_ag |-> [w.initial_ag EXCEPT ![i] = obs.achieved_goal]]
       ELSE [envs |-> [w.envs EXCEPT ![i] = e],
             g |-> [w.g EXCEPT ![i] = 0],
             initial_o |-> [w.initial_o EXCEPT ![i] = obs.observation],
             initial_ag |-> [w.initial_ag EXCEPT ![i] = 0]]

RECURSIVE ResetFrom(_, _, _, _)
ResetFrom(w, i, generated_goal, sampled) ==
    IF i > Len(w.envs) THEN w
    ELSE ResetFrom(reset_rollout(w, i, generated_goal, sampled), i + 1,
                   generated_goal, sampled)

\* a reset that leaves every environment where it is
reset_all_rollouts_skipped(w, generated_goal, sampled) == w

reset_all_rollouts(w, generated_goal, sampled) ==
    ResetFrom(w, 1, generated_goal, sampled)

Self == [envs |-> envs, g |-> g, initial_o |-> initial_o, initial_ag |-> initial_ag]

\* --------------------------------------------------------------- locals
NoLocals ==
    [t |-> 0, random_action |-> FALSE, o |-> <<>>, ag |-> <<>>, z |-> <<>>,
     obs |-> <<>>, zs |-> <<>>, achieved_goals |-> <<>>, acts |-> <<>>,
     goals |-> <<>>, successes |-> <<>>, rewards |-> <<>>, dones |-> <<>>,
     valids |-> <<>>, info_values |-> <<>>, Qs |-> <<>>, cur_valid |-> <<>>,
     lengths |-> <<>>, once_successes |-> <<>>, returns |-> <<>>]

NoEpisode ==
    [o |-> <<>>, z |-> <<>>, u |-> <<>>, g |-> <<>>, ag |-> <<>>,
     myr |-> <<>>, myd |-> <<>>, myv |-> <<>>, info |-> <<>>]

EmptyInfo ==
    [k \in 1 .. Len(info_keys) |->
        [t \in 1 .. cfg.T |-> Full(cfg.rollout_batch_size, Empty)]]

InitLocals(w, z_s_onehot, random_action) ==
    [t |-> 0, random_action |-> random_action,
     o |-> w.initial_o, ag |-> w.initial_ag, z |-> z_s_onehot.val,
     obs |-> <<>>, zs |-> <<>>, achieved_goals |-> <<>>, acts |-> <<>>,
     goals |-> <<>>, successes |-> <<>>, rewards |-> <<>>, dones |-> <<>>,
     valids |-> <<>>, info_values |-> EmptyInfo, Qs |-> <<>>,
     cur_valid |-> Ones(cfg.rollout_batch_size),
     lengths |-> Full(cfg.rollout_batch_size, Unset),
     once_successes |-> Zeros(cfg.rollout_batch_size),
     returns |-> Zeros(cfg.rollout_batch_size)]

\* ------------------------------------------- experiment/config.py, state
\* a make_env closure is named by the number of the prepare_params call that
\* defined it; an environment instance by its construction number
Factories == 1 .. MaxFactories
NoEnv == 0
ReplayStrategies == {"future", "none"}
NoSampler == [made |-> FALSE, future_p |-> [num |-> 0, den |-> 1]]
NoTransition ==
    [episode_idx |-> 0, t_sample |-> 0, her |-> FALSE, future_t |-> 0, g |-> 0]
Callers == {"prepare_params", "configure_her", "configure_dims", "configure_ddpg"}

\* the module as imported: nothing cached, nothing configured
\* the keys configure_her reads and then renames to '_' + name
HerKwargs == [replay_strategy : ReplayStrategies, replay_k : 0 .. MaxReplayK]
DEFAULT_PARAMS == [replay_strategy |-> "future", replay_k |-> 0]

NoParams(kw) ==
    [f \in Factories |->
        [prepared |-> FALSE, her_keys |-> FALSE,
         replay_strategy |-> kw.replay_strategy, replay_k |-> kw.replay_k]]

ConfigModuleInit(kw) ==
    /\ CACHED_ENVS = [f \in Factories |-> NoEnv]
    /\ make_env_calls = [f \in Factories |-> 0]
    /\ n_envs = 0
    /\ env_returned = {}
    /\ params = NoParams(kw)
    /\ n_factories = 0
    /\ n_config_calls = 0
    /\ sample_her_transitions = NoSampler
    /\ transitions = NoTransition


\* ------------------------------------------------------------------ Init
Configs ==
    {c \in [T : 1 .. MaxT, rollout_batch_size : 1 .. MaxBatch,
            exploit : BOOLEAN, compute_Q : BOOLEAN,
            noise_eps : {NoiseEps}, random_eps : {RandomEps},
            history_len : {HistoryLen}, env : EnvKinds] :
        /\ c.T * c.rollout_batch_size <= MaxCells
        /\ [exploit |-> c.exploit, compute_Q |-> c.compute_Q] \in WorkerKinds}

Init ==
    /\ cfg \in Configs
    /\ \E sampled \in [Batch -> EnvGoals] :
          LET blank == Zeros(cfg.rollout_batch_size)
              w == reset_all_rollouts(
                      [envs |-> [i \in Batch |-> EnvReset(cfg.env, sampled[i])],
                       g |-> blank, initial_o |-> blank, initial_ag |-> blank],
                      PyFalse, sampled)
          IN /\ envs = w.envs
             /\ g = w.g
             /\ initial_o = w.initial_o
             /\ initial_ag = w.initial_ag
    /\ success_history = <<>>
    /\ Q_history = <<>>
    /\ episode_length_history = <<>>
    /\ once_success_history = <<>>
    /\ return_history = <<>>
    /\ n_episodes = 0
    /\ pc = "idle"
    /\ call = [generated_goal |-> PyFalse, z_s_onehot |-> PyFalse,
               random_action |-> FALSE, faults |-> 0, nans |-> 0, resets |-> 0]
    /\ loc = NoLocals
    /\ policy_log = <<>>
    /\ warnings = 0
    /\ episode = NoEpisode
    /\ n_calls = 0
    /\ completed = <<>>
    /\ n_rollouts = 0
    /\ ConfigModuleInit(DEFAULT_PARAMS)

\* ------------------------------------------------------ policy.get_actions
noise_eps_arg == IF ~cfg.exploit THEN cfg.noise_eps ELSE 0

\* exploit taking precedence over random_action
random_eps_arg_exploit_first(random_action) ==
    IF ~cfg.exploit THEN (IF ~random_action THEN cfg.random_eps ELSE One) ELSE 0

random_eps_arg(random_action) ==
    IF ~random_action THEN (IF ~cfg.exploit THEN cfg.random_eps ELSE 0) ELSE One

get_actions_query(random_action) ==
    [compute_Q |-> cfg.compute_Q, noise_eps |-> noise_eps_arg,
     random_eps |-> random_eps_arg(random_action), exploit |-> cfg.exploit]

\* the policy is external; it acts on what it is shown
policy_u(o, z, ag, gl) == [i \in DOMAIN o |-> o[i] + gl[i]]
policy_Q(o, z, ag, gl) == [i \in DOMAIN o |-> ag[i]]

\* ------------------------------------------- generate_rollouts, entry part
generate_rollouts(w0, generated_goal, z_s_onehot, random_action) ==
    \E sampled \in [Batch -> EnvGoals] :
        LET w == reset_all_rollouts(w0, generated_goal, sampled)
        IN /\ envs' = w.envs
           /\ g' = w.g
           /\ initial_o' = w.initial_o
           /\ initial_ag' = w.initial_ag
           /\ policy_log' = <<>>
           /\ episode' = NoEpisode
           /\ IF z_s_onehot.ndarray
              THEN /\ pc' = "loop"
                   /\ loc' = InitLocals(w, z_s_onehot, random_action)
              ELSE \* z_s_onehot.copy() on a bool: AttributeError
                   /\ pc' = "raised"
                   /\ loc' = NoLocals

CallArgs ==
    [generated_goal : {PyFalse, NdArray([i \in Batch |-> 2 + i])},
     z_s_onehot : {PyFalse, NdArray(Ones(cfg.rollout_batch_size))},
     random_action : BOOLEAN]

Call ==
    /\ pc \in {"idle", "returned", "raised"}
    /\ n_calls < MaxCalls
    /\ (n_calls + 1) * cfg.T * cfg.rollout_batch_size <= MaxCells
    /\ \E a \in CallArgs :
          /\ call' = [generated_goal |-> a.generated_goal,
                      z_s_onehot |-> a.z_s_onehot,
                      random_action |-> a.random_action, faults |-> 0, nans |-> 0,
                      resets |-> 1]
          /\ generate_rollouts(Self, a.generated_goal, a.z_s_onehot,
                               a.random_action)
    /\ n_calls' = n_calls + 1
    /\ UNCHANGED <<cfg, histories, n_episodes, warnings, completed, n_rollouts,
                   config_vars>>

\* ------------------------------------------- generate_rollouts, loop body
\* recording the length at every terminal event, not only the first
lengths_update_overwriting(len_i, done, t, info) ==
    IF done \/ t = cfg.T - 1
    THEN (IF info.has_cur_step THEN info.cur_step ELSE t + 1)
    ELSE len_i

lengths_update(len_i, done, t, info) ==
    IF (done \/ t = cfg.T - 1) /\ len_i = Unset
    THEN (IF info.has_cur_step THEN info.cur_step ELSE t + 1)
    ELSE len_i

\* a once-success flag that is never raised
once_successes_update_dropped(once_i, success_i) == once_i

once_successes_update(once_i, success_i) ==
    IF success_i > 0 THEN 1 ELSE once_i

\* accumulating without looking at the validity flag
returns_update_unmasked(ret_i, valid_i, reward) == ret_i + reward

returns_update(ret_i, valid_i, reward) ==
    IF valid_i # 0 THEN ret_i + reward ELSE ret_i

\* validity that is never taken away
cur_valid_update_never(valid_i, done_i) == valid_i

\* validity that follows the current done flag instead of latching
cur_valid_update_unlatched(valid_i, done_i) ==
    IF done_i # 0 THEN 0 ELSE 1

cur_valid_update(valid_i, done_i) ==
    IF done_i # 0 THEN 0 ELSE valid_i

info_values_update(iv, t, stepped, res) ==
    [k \in DOMAIN iv |->
        [iv[k] EXCEPT ![t + 1] =
            [i \in Batch |->
                InfoOf(EnvInfo(cfg.env, stepped[i], res[i]), info_keys[k])]]]

isnan_any(a) == \E i \in DOMAIN a : a[i] = NaN

\* trajectory entries that are the live buffer itself: the in-place write
\* shows in every one of them
after_inplace_write_aliased(recorded, new) == [k \in DOMAIN recorded |-> new]

\* a trajectory list after `o[...] = o_new` (`ag[...] = ag_new`): its entries
\* were appended as copies, the write to the live buffer reaches none of them
after_inplace_write(recorded, new) == recorded

\* one iteration of `for t in range(self.T)` that reaches its end
loop_body(l, res, stepped) ==
    LET t == l.t
        info == [i \in Batch |-> EnvInfo(cfg.env, stepped[i], res[i])]
        curr_o_new == [i \in Batch |-> StepObs(cfg.env, stepped[i], res[i])]
        u == policy_u(l.o, l.z, l.ag, g)
        success == [i \in Batch |->
                       IF info[i].has_success THEN info[i].is_success ELSE 0]
        cur_reward == [i \in Batch |-> res[i].reward]
        cur_done == [i \in Batch |-> IF res[i].done THEN 1 ELSE 0]
        o_new == [i \in Batch |-> curr_o_new[i].observation]
        ag_new == [i \in Batch |->
                      IF curr_o_new[i].dict THEN curr_o_new[i].achieved_goal ELSE 0]
    IN [l EXCEPT
          !.t = t + 1,
          !.lengths = [i \in Batch |-> lengths_update(@[i], res[i].done, t, info[i])],
          !.once_successes = [i \in Batch |-> once_successes_update(@[i], success[i])],
          !.returns = [i \in Batch |-> returns_update(@[i], l.cur_valid[i], res[i].reward)],
          !.info_values = info_values_update(@, t, stepped, res),
          !.Qs = IF cfg.compute_Q THEN Append(@, policy_Q(l.o, l.z, l.ag, g)) ELSE @,
          !.obs = after_inplace_write(Append(@, l.o), o_new),
          !.rewards = Append(@, cur_reward),
          !.dones = Append(@, cur_done),
          !.valids = Append(@, l.cur_valid),
          !.zs = Append(@, l.z),
          !.achieved_goals = after_inplace_write(Append(@, l.ag), ag_new),
          !.successes = Append(@, success),
          !.acts = Append(@, u),
          !.goals = Append(@, g),
          !.o = o_new,
          !.ag = ag_new,
          !.cur_valid = [i \in Batch |-> cur_valid_update(@[i], cur_done[i])]]

\* stepping only the environments that are still valid
step_envs_valid_only(es) ==
    [i \in DOMAIN es |-> IF loc.cur_valid[i] # 0 THEN EnvMove(es[i]) ELSE es[i]]

\* `for i in range(self.rollout_batch_size)`: every environment is stepped
step_envs(es) == [i \in DOMAIN es |-> EnvMove(es[i])]

Step ==
    /\ pc = "loop"
    /\ loc.t < cfg.T
    /\ \E res \in [Batch -> StepResults] :
          LET stepped == step_envs(envs)
              o_new == [i \in Batch |-> StepObs(cfg.env, stepped[i], res[i]).observation]
          IN IF \E i \in Batch : res[i].kind = "fault"
             THEN \* except MujocoException: return self.generate_rollouts()
                  /\ generate_rollouts(Self, PyFalse, PyFalse, FALSE)
                  /\ call' = [call EXCEPT !.faults = @ + 1, !.resets = @ + 1]
                  /\ UNCHANGED warnings
             ELSE IF isnan_any(o_new)
             THEN /\ warnings' = warnings + 1
                  /\ \E s1 \in [Batch -> EnvGoals] :
                        generate_rollouts(
                            reset_all_rollouts(Self, PyFalse, s1),
                            PyFalse, PyFalse, FALSE)
                  /\ call' = [call EXCEPT !.nans = @ + 1, !.resets = @ + 2]
             ELSE /\ loc' = loop_body(loc, res, stepped)
                  /\ envs' = stepped
                  /\ policy_log' = Append(policy_log,
                                          get_actions_query(loc.random_action))
                  /\ UNCHANGED <<worker, pc, call, warnings, episode>>
    /\ UNCHANGED <<cfg, histories, n_episodes, n_calls, completed, n_rollouts,
                   config_vars>>

\* ------------------------------------ convert_episode_to_batch_major (util)
\* a reshape that keeps the shape but reads the time axis backwards
convert_episode_reversed(val) ==
    [b \in Batch |-> [t \in 1 .. Len(val) |-> val[Len(val) + 1 - t][b]]]

convert_episode_to_batch_major(val) ==
    [b \in Batch |-> [t \in 1 .. Len(val) |-> val[t][b]]]

\* ---------------------------------------------- generate_rollouts, the end
\* a full window that refuses the new entry instead of evicting the oldest
deque_append_keep_oldest(d, x) ==
    IF Len(d) >= cfg.history_len THEN d ELSE Append(d, x)

\* an append that runs twice
deque_append_twice(d, x) ==
    LET s == Append(Append(d, x), x)
    IN IF Len(s) > cfg.history_len
       THEN SubSeq(s, Len(s) - cfg.history_len + 1, Len(s)) ELSE s

deque_append(d, x) ==
    LET s == Append(d, x)
    IN IF Len(s) > cfg.history_len THEN Tail(s) ELSE s

\* forgetting the observation after the last step
final_obs_dropped(obs, o) == obs

final_obs(obs, o) == Append(obs, o)

\* the scalars one completed rollout contributes to the statistics
rollout_stats(l) ==
    [success |-> Mean(l.successes[Len(l.successes)]),
     once_success |-> Mean(l.once_successes),
     return |-> Mean(l.returns),
     episode_length |-> Mean(l.lengths),
     Q |-> Mean(Flatten(l.Qs))]

Finish ==
    /\ pc = "loop"
    /\ loc.t = cfg.T
    /\ LET obs == final_obs(loc.obs, loc.o)
           achieved_goals == final_obs(loc.achieved_goals, loc.ag)
           successful == loc.successes[Len(loc.successes)]
       IN /\ loc' = [loc EXCEPT !.obs = obs, !.achieved_goals = achieved_goals]
          /\ initial_o' = loc.o
          /\ episode' =
                [o |-> convert_episode_to_batch_major(obs),
                 z |-> convert_episode_to_batch_major(loc.zs),
                 u |-> convert_episode_to_batch_major(loc.acts),
                 g |-> convert_episode_to_batch_major(loc.goals),
                 ag |-> convert_episode_to_batch_major(achieved_goals),
                 myr |-> convert_episode_to_batch_major(loc.rewards),
                 myd |-> convert_episode_to_batch_major(loc.dones),
                 myv |-> convert_episode_to_batch_major(loc.valids),
                 info |-> [k \in DOMAIN loc.info_values |->
                              convert_episode_to_batch_major(loc.info_values[k])]]
          /\ success_history' = deque_append(success_history, Mean(successful))
          /\ once_success_history' =
                deque_append(once_success_history, rollout_stats(loc).once_success)
          /\ return_history' = deque_append(return_history, rollout_stats(loc).return)
          /\ episode_length_history' =
                deque_append(episode_length_history, rollout_stats(loc).episode_length)
          /\ Q_history' = IF cfg.compute_Q
                          THEN deque_append(Q_history, rollout_stats(loc).Q)
                          ELSE Q_history
    /\ n_episodes' = n_episodes + cfg.rollout_batch_size
    /\ completed' = Append(completed, rollout_stats(loc))
    /\ n_rollouts' = n_rollouts + 1
    /\ pc' = "returned"
    /\ UNCHANGED <<cfg, envs, g, initial_ag, call, policy_log, warnings, n_calls,
                   config_vars>>

\* ----------------------------------------------------------- clear_history
\* a clear that also starts the episode counter again
clear_history_and_counter ==
    /\ pc \in {"idle", "returned", "raised"}
    /\ success_history' = <<>>
    /\ Q_history' = <<>>
    /\ episode_length_history' = <<>>
    /\ once_success_history' = <<>>
    /\ return_history' = <<>>
    /\ completed' = <<>>
    /\ n_episodes' = 0
    /\ UNCHANGED <<cfg, envs, worker, pc, call, loc, policy_log,
                   warnings, episode, n_calls, n_rollouts, config_vars>>

clear_history ==
    /\ pc \in {"idle", "returned", "raised"}
    /\ success_history' = <<>>
    /\ Q_history' = <<>>
    /\ episode_length_history' = <<>>
    /\ once_success_history' = <<>>
    /\ return_history' = <<>>
    /\ completed' = <<>>
    /\ UNCHANGED <<cfg, envs, worker, n_episodes, pc, call, loc, policy_log,
                   warnings, episode, n_calls, n_rollouts, config_vars>>

\* -------------------------------------------------------------------- logs
\* strings are sequences of characters; a key is kept as one symbol
Prefixes == {<<>>, <<"w">>, <<"w", "/">>}

endswith(str, ch) == Len(str) > 0 /\ str[Len(str)] = ch

\* `prefix is not ''`: the empty string is one interned object
is_not_empty_str(str) == str # <<>>

\* np.mean over a window whose entries are means over one common count;
\* the mean of an empty window is 0/0 (NaN)
window_mean(h) ==
    [sum |-> Sum([k \in DOMAIN h |-> h[k].sum]),
     n |-> Sum([k \in DOMAIN h |-> h[k].n])]

\* the names in the order in which logs() appends them
log_names ==
    <<"num_trajs", "success_rate", "once_success_rate", "return",
      "episode_length">>
    \o (IF cfg.compute_Q THEN <<"mean_Q">> ELSE <<>>)
    \o <<"episode">>

log_value(name) ==
    CASE name = "num_trajs" -> Len(success_history) * cfg.rollout_batch_size
      [] name = "success_rate" -> window_mean(success_history)
      [] name = "once_success_rate" -> window_mean(once_success_history)
      [] name = "return" -> window_mean(return_history)
      [] name = "episode_length" -> window_mean(episode_length_history)
      [] name = "mean_Q" -> window_mean(Q_history)
      [] name = "episode" -> n_episodes

logs(prefix) ==
    IF is_not_empty_str(prefix) /\ ~endswith(prefix, "/")
    THEN [k \in DOMAIN log_names |->
             <<prefix \o <<"/">> \o <<log_names[k]>>, log_value(log_names[k])>>]
    ELSE [k \in DOMAIN log_names |->
             <<<<log_names[k]>>, log_value(log_names[k])>>]

\* ======================================================================
\* the module state cached_make_env works on
CacheState ==
    [CACHED_ENVS |-> CACHED_ENVS, make_env_calls |-> make_env_calls,
     n_envs |-> n_envs, env |-> NoEnv]

\* a cache that is never consulted
cached_make_env_always(c, make_env) ==
    [CACHED_ENVS |-> [c.CACHED_ENVS EXCEPT ![make_env] = c.n_envs + 1],
     make_env_calls |-> [c.make_env_calls EXCEPT ![make_env] = @ + 1],
     n_envs |-> c.n_envs + 1,
     env |-> c.n_envs + 1]

\* `if make_env not in CACHED_ENVS: CACHED_ENVS[make_env] = make_env()`, then
\* `return CACHED_ENVS[make_env]`; make_env() returns a new instance
cached_make_env(c, make_env) ==
    IF c.CACHED_ENVS[make_env] = NoEnv
    THEN [CACHED_ENVS |-> [c.CACHED_ENVS EXCEPT ![make_env] = c.n_envs + 1],
          make_env_calls |-> [c.make_env_calls EXCEPT ![make_env] = @ + 1],
          n_envs |-> c.n_envs + 1,
          env |-> c.n_envs + 1]
    ELSE [c EXCEPT !.env = c.CACHED_ENVS[make_env]]

\* the module state after a caller got its environment
Cached(c, caller, make_env) ==
    /\ CACHED_ENVS' = c.CACHED_ENVS
    /\ make_env_calls' = c.make_env_calls
    /\ n_envs' = c.n_envs
    /\ env_returned' = env_returned \cup {<<caller, make_env, c.env>>}

\* her.py: the probability that a sampled transition is relabelled, as a
\* fraction
future_p_inverted(replay_strategy, replay_k) ==
    IF replay_strategy = "future"
    THEN [num |-> 1, den |-> replay_k + 1]
    ELSE [num |-> 0, den |-> 1]

future_p(replay_strategy, replay_k) ==
    IF replay_strategy = "future"
    THEN [num |-> replay_k, den |-> replay_k + 1]
    ELSE [num |-> 0, den |-> 1]

make_sample_her_transitions(replay_strategy, replay_k) ==
    [made |-> TRUE, future_p |-> future_p(replay_strategy, replay_k)]

\* a uniform draw from [0, 1) is one of the Grid points k / Grid
Draws == 0 .. Grid - 1
\* `uniform < future_p`
is_her(draw, p) == draw * p.den < p.num * Grid

\* a future timestep that may be the sampled one
future_timestep_from_t(t, draw, T) == t + ((draw * (T - t)) \div Grid)

\* `t + 1 + int(uniform * (T - t))`
future_timestep(t, draw, T) == t + 1 + ((draw * (T - t)) \div Grid)

\* one transition out of the sampling function; timesteps count from 0
sample_transition(episode_batch, episode_idx, t, her_draw, offset_draw, p) ==
    LET T == Len(episode_batch.u[episode_idx])
        her == is_her(her_draw, p)
        f == future_timestep(t, offset_draw, T)
    IN [episode_idx |-> episode_idx, t_sample |-> t, her |-> her,
        future_t |-> IF her THEN f ELSE 0,
        g |-> IF her THEN episode_batch.ag[episode_idx][f + 1]
                     ELSE episode_batch.g[episode_idx][t + 1]]

\* prepare_params(kwargs): defines make_env, caches its environment; the
\* replay keys of kwargs are what the experiment was launched with
prepare_params ==
    /\ n_factories < MaxFactories
    /\ n_config_calls < MaxConfigCalls
    /\ LET make_env == n_factories + 1
           c == cached_make_env(CacheState, make_env)
       IN /\ Cached(c, "prepare_params", make_env)
          /\ params' = [params EXCEPT ![make_env].prepared = TRUE,
                                      ![make_env].her_keys = TRUE]
    /\ n_factories' = n_factories + 1
    /\ n_config_calls' = n_config_calls + 1
    /\ UNCHANGED <<sample_her_transitions, transitions, rollout_vars>>

\* configure_her(params); a second call on the same params finds the keys
\* renamed and raises KeyError after it got the environment
configure_her ==
    /\ n_config_calls < MaxConfigCalls
    /\ \E make_env \in Factories :
          /\ params[make_env].prepared
          /\ Cached(cached_make_env(CacheState, make_env), "configure_her", make_env)
          /\ IF params[make_env].her_keys
             THEN /\ params' = [params EXCEPT ![make_env].her_keys = FALSE]
                  /\ sample_her_transitions' =
                        make_sample_her_transitions(
                            params[make_env].replay_strategy,
                            params[make_env].replay_k)
             ELSE UNCHANGED <<params, sample_her_transitions>>
    /\ n_config_calls' = n_config_calls + 1
    /\ UNCHANGED <<n_factories, transitions, rollout_vars>>

configure_dims ==
    /\ n_config_calls < MaxConfigCalls
    /\ \E make_env \in Factories :
          /\ params[make_env].prepared
          /\ Cached(cached_make_env(CacheState, make_env), "configure_dims", make_env)
    /\ n_config_calls' = n_config_calls + 1
    /\ UNCHANGED <<n_factories, params, sample_her_transitions, transitions,
                   rollout_vars>>

\* configure_ddpg(dims, params, ...): configure_her, then the environment
\* once more
configure_ddpg ==
    /\ n_config_calls < MaxConfigCalls
    /\ \E make_env \in Factories :
          /\ params[make_env].prepared
          /\ LET c1 == cached_make_env(CacheState, make_env)
             IN IF params[make_env].her_keys
                THEN LET c2 == cached_make_env(c1, make_env)
                     IN /\ CACHED_ENVS' = c2.CACHED_ENVS
                        /\ make_env_calls' = c2.make_env_calls
                        /\ n_envs' = c2.n_envs
                        /\ env_returned' = env_returned
                              \cup {<<"configure_her", make_env, c1.env>>,
                                    <<"configure_ddpg", make_env, c2.env>>}
                        /\ params' = [params EXCEPT ![make_env].her_keys = FALSE]
                        /\ sample_her_transitions' =
                              make_sample_her_transitions(
                                  params[make_env].replay_strategy,
                                  params[make_env].replay_k)
                ELSE /\ Cached(c1, "configure_her", make_env)
                     /\ UNCHANGED <<params, sample_her_transitions>>
    /\ n_config_calls' = n_config_calls + 1
    /\ UNCHANGED <<n_factories, transitions, rollout_vars>>

\* the sampling function on the stored episodes, one transition asked for;
\* it keeps no state between calls, so one call per sampler state is followed
SampleTransitions ==
    /\ sample_her_transitions.made
    /\ transitions = NoTransition
    /\ \E episode_idx \in Batch, t \in 0 .. cfg.T - 1,
          her_draw \in Draws, offset_draw \in Draws :
          transitions' = sample_transition(episode, episode_idx, t, her_draw,
                                           offset_draw,
                                           sample_her_transitions.future_p)
    /\ UNCHANGED <<CACHED_ENVS, make_env_calls, n_envs, env_returned, params,
                   n_factories, n_config_calls, sample_her_transitions,
                   rollout_vars>>

\* an episode batch as a rollout without early termination leaves it, with
\* achieved goals that tell episodes and timesteps apart
StoredEpisodes ==
    [o |-> [b \in Batch |-> [k \in 1 .. cfg.T + 1 |-> k - 1]],
     z |-> [b \in Batch |-> [t \in 1 .. cfg.T |-> 1]],
     u |-> [b \in Batch |-> [t \in 1 .. cfg.T |-> t]],
     g |-> [b \in Batch |-> [t \in 1 .. cfg.T |-> 0 - b]],
     ag |-> [b \in Batch |-> [k \in 1 .. cfg.T + 1 |-> (MaxT + 2) * b + k]],
     myr |-> [b \in Batch |-> [t \in 1 .. cfg.T |-> 1]],
     myd |-> [b \in Batch |-> [t \in 1 .. cfg.T |-> 0]],
     myv |-> [b \in Batch |-> [t \in 1 .. cfg.T |-> 1]],
     info |-> <<>>]

\* the configuration stage of an experiment: a worker that has returned the
\* stored episodes, the module freshly imported
ConfigInit ==
    /\ cfg = [T |-> MaxT, rollout_batch_size |-> MaxBatch,
              exploit |-> FALSE, compute_Q |-> FALSE,
              noise_eps |-> NoiseEps, random_eps |-> RandomEps,
              history_len |-> HistoryLen,
              env |-> [dict |-> TRUE, is_success |-> TRUE, cur_step |-> FALSE]]
    /\ envs = [i \in Batch |-> [EnvReset(cfg.env, 1) EXCEPT !.pos = cfg.T]]
    /\ g = [i \in Batch |-> 0 - i]
    /\ initial_o = [i \in Batch |-> cfg.T]
    /\ initial_ag = [i \in Batch |-> (MaxT + 2) * i + 1]
    /\ success_history = <<>>
    /\ Q_history = <<>>
    /\ episode_length_history = <<>>
    /\ once_success_history = <<>>
    /\ return_history = <<>>
    /\ n_episodes = 0
    /\ pc = "idle"
    /\ call = [generated_goal |-> PyFalse, z_s_onehot |-> PyFalse,
               random_action |-> FALSE, faults |-> 0, nans |-> 0, resets |-> 0]
    /\ loc = NoLocals
    /\ policy_log = <<>>
    /\ warnings = 0
    /\ episode = StoredEpisodes
    /\ n_calls = 0
    /\ completed = <<>>
    /\ n_rollouts = 0
    /\ \E kw \in HerKwargs : ConfigModuleInit(kw)

ConfigNext ==
    \/ prepare_params
    \/ configure_her
    \/ configure_dims
    \/ configure_ddpg
    \/ SampleTransitions

ConfigSpec == ConfigInit /\ [][ConfigNext]_vars

Next == Call \/ Step \/ Finish \/ clear_history

Spec == Init /\ [][Next]_vars

\* the first rollout of a newly constructed worker
FirstCall == n_calls = 0 /\ Call
OneRolloutNext == FirstCall \/ Step \/ Finish
OneRollout == Init /\ [][OneRolloutNext]_vars

\* ======================================================================
\* Properties
\* ======================================================================
Returned == pc = "returned"
InCall == pc \in {"loop", "returned"}
Restarts == call.faults + call.nans
ReturnStep == pc = "loop" /\ pc' = "returned"
LastN(s, n) == SubSeq(s, Len(s) - n + 1, Len(s))
Min(a, b) == IF a < b THEN a ELSE b
Column(seq, field) == [k \in DOMAIN seq |-> seq[k][field]]

\* C1: every returned rollout has, for each of the rollout_batch_size
\* environments, exactly T+1 entries in o and ag and exactly T entries in
\* z, u, g, myr, myd, myv and in every info channel.
C1_EpisodeLengths ==
    Returned =>
        /\ Len(loc.obs) = cfg.T + 1
        /\ Len(loc.achieved_goals) = cfg.T + 1
        /\ \A f \in {"zs", "acts", "goals", "rewards", "dones", "valids"} :
              Len(loc[f]) = cfg.T
        /\ \A f \in {"obs", "achieved_goals", "zs", "acts", "goals",
                      "rewards", "dones", "valids"} :
              \A t \in DOMAIN loc[f] : DOMAIN loc[f][t] = Batch
        /\ \A f \in {"o", "z", "u", "g", "ag", "myr", "myd", "myv"} :
              DOMAIN episode[f] = Batch
        /\ \A b \in Batch :
              /\ Len(episode.o[b]) = cfg.T + 1
              /\ Len(episode.ag[b]) = cfg.T + 1
              /\ \A f \in {"z", "u", "g", "myr", "myd", "myv"} :
                    Len(episode[f][b]) = cfg.T
        /\ DOMAIN episode.info = DOMAIN info_keys
        /\ \A k \in DOMAIN episode.info :
              /\ DOMAIN episode.info[k] = Batch
              /\ \A b \in Batch : Len(episode.info[k][b]) = cfg.T

C1_Witness ==
    /\ Returned
    /\ cfg.T = 2
    /\ cfg.rollout_batch_size = 2
    /\ Len(info_keys) = 1
    /\ episode.myd[1] = <<1, 0>>
    /\ episode.myd[2] = <<0, 0>>
    /\ Len(episode.o[2]) = 3

\* C2: when an environment step raises a simulator fault, the attempt is
\* discarded and restarted and the call still returns a complete rollout:
\* a call in which a fault happened is running a fresh attempt or has
\* returned an episode of T steps.
C2_FaultRestartStillReturns ==
    call.faults > 0 =>
        /\ pc \in {"loop", "returned"}
        /\ Returned => \A b \in Batch : Len(episode.myr[b]) = cfg.T

\* C3: when a step produces a NaN observation, a warning is logged, every
\* environment is reset, the rollout restarts and the call returns a rollout
\* whose observations contain no NaN.
C3_NaNRestartStillReturns ==
    call.nans > 0 =>
        /\ warnings > 0
        /\ pc \in {"loop", "returned"}
        /\ Returned => \A b \in Batch : ~isnan_any(episode.o[b])

\* C4: for a goal-conditioned environment, a call given a generated_goal
\* array returns a rollout whose g for every environment b at every timestep
\* equals generated_goal[b], whether or not a fault/NaN restart happened
\* during the call.
C4_GeneratedGoalInReturnedRollout ==
    (/\ cfg.env.dict
     /\ call.generated_goal.ndarray
     /\ call.z_s_onehot.ndarray
     /\ pc \in {"returned", "raised"})
    => /\ Returned
       /\ \A b \in Batch : \A t \in 1 .. cfg.T :
             episode.g[b][t] = call.generated_goal.val[b]

\* C4, the part the code keeps: a rollout returned without a restart
\* carries generated_goal[b] in every g entry of environment b.
C4_GeneratedGoalWithoutRestart ==
    (cfg.env.dict /\ call.generated_goal.ndarray /\ Returned) =>
        /\ Restarts = 0
        /\ \A b \in Batch : \A t \in 1 .. cfg.T :
              episode.g[b][t] = call.generated_goal.val[b]

\* C5: within one rollout the validity mask of each environment is
\* non-increasing over timesteps: once 0 it stays 0, whatever done says
\* later.
C5_ValidityMonotone ==
    /\ InCall =>
          \A i \in Batch : \A s, t \in DOMAIN loc.valids :
              (s < t /\ loc.valids[s][i] = 0) => loc.valids[t][i] = 0
    /\ Returned =>
          \A i \in Batch : \A s, t \in 1 .. cfg.T :
              (s < t /\ episode.myv[i][s] = 0) => episode.myv[i][t] = 0

C5_Witness ==
    /\ Returned
    /\ cfg.T = 3
    /\ episode.myd[1] = <<1, 0, 0>>
    /\ episode.myv[1] = <<1, 0, 0>>

\* C6: for every environment i of a completed rollout, the accumulated
\* return (the value averaged into return_history) is the sum of myr[i][t]
\* over the timesteps t where myv[i][t] is true.
ValidRewards(i) ==
    [t \in 1 .. cfg.T |->
        IF episode.myv[i][t] # 0 THEN episode.myr[i][t] ELSE 0]

C6_ReturnIsSumOverValid ==
    Returned =>
        /\ \A i \in Batch : loc.returns[i] = Sum(ValidRewards(i))
        /\ return_history # <<>> =>
              return_history[Len(return_history)] = Mean(loc.returns)

C6_Witness ==
    /\ Returned
    /\ cfg.T = 3
    /\ episode.myv[1] = <<1, 1, 0>>
    /\ episode.myr[1] = <<1, 2, 2>>
    /\ loc.returns[1] = 3
    /\ return_history = <<[sum |-> 3, n |-> 1]>>

\* C7: lockstep batching: in an attempt that completes, every environment
\* has been stepped exactly once at every timestep so far, also after it
\* reported done; none is skipped before the horizon T.
C7_Lockstep ==
    InCall =>
        /\ \A i \in Batch : envs[i].pos = loc.t
        /\ Returned => loc.t = cfg.T

C7_Witness ==
    /\ Returned
    /\ cfg.T = 2
    /\ cfg.rollout_batch_size = 2
    /\ episode.myd[1] = <<1, 0>>
    /\ episode.myd[2] = <<0, 1>>
    /\ envs[1].pos = 2
    /\ envs[2].pos = 2

\* C8 as stated: each call that returns appends exactly one scalar to each
\* of the five statistics windows, regardless of configuration.
AppendedOne(h, h2) ==
    /\ h2 # <<>>
    /\ LET s == Append(h, h2[Len(h2)])
       IN h2 = IF Len(s) > cfg.history_len THEN Tail(s) ELSE s

C8_OneAppendToEveryWindow ==
    [][ReturnStep =>
          /\ AppendedOne(success_history, success_history')
          /\ AppendedOne(once_success_history, once_success_history')
          /\ AppendedOne(return_history, return_history')
          /\ AppendedOne(episode_length_history, episode_length_history')
          /\ AppendedOne(Q_history, Q_history')]_vars

\* C8 amended: each call that returns appends exactly one scalar to the
\* success, once-success, return and episode-length windows, and to the Q
\* window exactly when compute_Q is set (it is left alone otherwise); no
\* other step of a call appends anything.
C8_OneAppendPerReturn ==
    [][/\ ReturnStep =>
             /\ AppendedOne(success_history, success_history')
             /\ AppendedOne(once_success_history, once_success_history')
             /\ AppendedOne(return_history, return_history')
             /\ AppendedOne(episode_length_history, episode_length_history')
             /\ IF cfg.compute_Q
                THEN AppendedOne(Q_history, Q_history')
                ELSE Q_history' = Q_history
       /\ (~ReturnStep /\ pc' # pc) => UNCHANGED histories]_vars

C8_Witness ==
    /\ Returned
    /\ ~cfg.compute_Q
    /\ n_calls = 2
    /\ Len(success_history) = 2
    /\ Len(return_history) = 2
    /\ Q_history = <<>>

\* C9 as stated: each statistics window holds at most history_len entries,
\* exactly the values of the most recent min(n, history_len) rollouts
\* completed since the last clear, in completion order.
WindowOf(h, field) ==
    /\ Len(h) <= cfg.history_len
    /\ h = LastN(Column(completed, field),
                 Min(Len(completed), cfg.history_len))

C9_WindowsAreRecentRollouts ==
    /\ WindowOf(success_history, "success")
    /\ WindowOf(once_success_history, "once_success")
    /\ WindowOf(return_history, "return")
    /\ WindowOf(episode_length_history, "episode_length")
    /\ WindowOf(Q_history, "Q")

\* C9 amended: the success, once-success, return and episode-length windows
\* hold at most history_len entries, exactly the values of the most recent
\* min(n, history_len) rollouts completed since the last clear, in
\* completion order; the Q window does so when compute_Q is set and is
\* empty otherwise.
C9_FifoWindows ==
    /\ WindowOf(success_history, "success")
    /\ WindowOf(once_success_history, "once_success")
    /\ WindowOf(return_history, "return")
    /\ WindowOf(episode_length_history, "episode_length")
    /\ IF cfg.compute_Q THEN WindowOf(Q_history, "Q") ELSE Q_history = <<>>

C9_Witness ==
    /\ Len(completed) = cfg.history_len + 1
    /\ Len(return_history) = cfg.history_len
    /\ completed[1].return # completed[2].return
    /\ return_history[1] = completed[2].return
    /\ cfg.compute_Q
    /\ Len(Q_history) = cfg.history_len

\* C10: in every policy query of a rollout, noise_eps is 0 under exploit and
\* the configured noise_eps otherwise; random_eps is 1 whenever the call was
\* made with random_action (even under exploit), else 0 under exploit, else
\* the configured random_eps.
C10_ExplorationArgs ==
    /\ InCall => Len(policy_log) = loc.t
    /\ \A k \in DOMAIN policy_log :
          /\ policy_log[k].noise_eps =
                (IF cfg.exploit THEN 0 ELSE cfg.noise_eps)
          /\ policy_log[k].random_eps =
                (IF call.random_action THEN One
                 ELSE IF cfg.exploit THEN 0 ELSE cfg.random_eps)

C10_Witness ==
    /\ cfg.exploit
    /\ call.random_action
    /\ Len(policy_log) = 2
    /\ policy_log[2].random_eps = One
    /\ policy_log[2].noise_eps = 0

\* C11: logs(prefix) returns the (name, value) pairs in the fixed order
\* num_trajs, success_rate, once_success_rate, return, episode_length,
\* [mean_Q when compute_Q], episode; for every non-empty prefix each name is
\* prefix + '/' + key, for the empty prefix the names are the keys.
LogKeys ==
    <<"num_trajs", "success_rate", "once_success_rate", "return",
      "episode_length">>
    \o (IF cfg.compute_Q THEN <<"mean_Q">> ELSE <<>>) \o <<"episode">>

C11_LogsNamesPrefixed ==
    \A p \in Prefixes :
        /\ DOMAIN logs(p) = DOMAIN LogKeys
        /\ \A k \in DOMAIN LogKeys :
              logs(p)[k][1] =
                 IF p = <<>> THEN <<LogKeys[k]>>
                 ELSE p \o <<"/">> \o <<LogKeys[k]>>

\* C11, the part the code keeps: the order of the keys, the prefix for a
\* non-empty prefix that does not end in '/', bare keys for the empty one.
C11_LogsNamesOtherPrefixes ==
    \A p \in Prefixes :
        ~endswith(p, "/") =>
            /\ DOMAIN logs(p) = DOMAIN LogKeys
            /\ \A k \in DOMAIN LogKeys :
                  logs(p)[k][1] =
                     IF p = <<>> THEN <<LogKeys[k]>>
                     ELSE p \o <<"/">> \o <<LogKeys[k]>>

\* the time-major buffer behind each field of the episode dict
TimeMajor ==
    [o |-> loc.obs, z |-> loc.zs, u |-> loc.acts, g |-> loc.goals,
     ag |-> loc.achieved_goals, myr |-> loc.rewards, myd |-> loc.dones,
     myv |-> loc.valids]

\* C12: episode assembly is a pure transpose: for every field of the
\* time-major episode, every batch index b and every timestep t, the returned
\* batch-major episode has converted[field][b][t] = time_major[field][t][b],
\* the info channels included, and the set of field names is unchanged.
C12_PureTranspose ==
    Returned =>
        /\ DOMAIN episode = DOMAIN TimeMajor \cup {"info"}
        /\ \A f \in DOMAIN TimeMajor :
              /\ DOMAIN episode[f] = Batch
              /\ \A b \in Batch :
                    /\ DOMAIN episode[f][b] = DOMAIN TimeMajor[f]
                    /\ \A t \in DOMAIN TimeMajor[f] :
                          episode[f][b][t] = TimeMajor[f][t][b]
        /\ DOMAIN episode.info = DOMAIN loc.info_values
        /\ \A k \in DOMAIN loc.info_values :
              \A b \in Batch :
                 /\ DOMAIN episode.info[k][b] = DOMAIN loc.info_values[k]
                 /\ \A t \in DOMAIN loc.info_values[k] :
                       episode.info[k][b][t] = loc.info_values[k][t][b]

C12_Witness ==
    /\ Returned
    /\ cfg.T = 2
    /\ cfg.rollout_batch_size = 2
    /\ loc.rewards = <<<<1, 2>>, <<2, 2>>>>
    /\ episode.myr = <<<<1, 2>>, <<2, 2>>>>
    /\ episode.myd[1] # episode.myd[2]
    /\ Len(info_keys) = 1
    /\ episode.info[1][1] # episode.info[1][2]

\* the first timestep (counted from 1) at which environment i reported done
\* in the returned episode, the horizon if it never did
FirstDone(i) ==
    LET ds == {t \in 1 .. cfg.T : episode.myd[i][t] # 0}
    IN IF ds = {} THEN cfg.T ELSE CHOOSE t \in ds : \A s \in ds : t <= s

\* C16: the timestep at which an environment first reports done is itself
\* still valid: with d the first done step of environment i, myv[i][t] is 1
\* for all t <= d and 0 for all t > d (all ones if done comes first at the
\* last step or never), and the return counts the rewards up to and
\* including step d.
C16_FirstDoneStepValid ==
    Returned =>
        \A i \in Batch :
            /\ \A t \in 1 .. cfg.T :
                  episode.myv[i][t] = (IF t <= FirstDone(i) THEN 1 ELSE 0)
            /\ loc.returns[i] = Sum(SubSeq(episode.myr[i], 1, FirstDone(i)))

C16_Witness ==
    /\ Returned
    /\ cfg.T = 3
    /\ episode.myd[1] = <<0, 1, 0>>
    /\ episode.myv[1] = <<1, 1, 0>>
    /\ episode.myr[1] = <<1, 2, 1>>
    /\ loc.returns[1] = 3

\* the first timestep so far (counted from 1) at which environment i reported
\* done or the horizon was reached; 0 while there is none
FirstEnd(i) ==
    LET es == {t \in DOMAIN loc.dones : loc.dones[t][i] # 0 \/ t = cfg.T}
    IN IF es = {} THEN 0 ELSE CHOOSE t \in es : \A s \in es : t <= s

\* what environment i reports as cur_step after its d-th step
CurStepAt(i, d) ==
    EnvInfo(cfg.env, [envs[i] EXCEPT !.pos = d], [is_success |-> 0]).cur_step

\* C17: the episode length of each environment is recorded once, at the
\* first timestep where it reports done or the horizon is reached, as the
\* environment's cur_step if it reports one and t+1 otherwise; it stays at
\* the sentinel before that and is not overwritten after it; at the end of a
\* completed rollout no length is left at the sentinel, the lengths lie in
\* 1..T when the environment reports no cur_step, and their mean is what the
\* episode-length window receives.
C17_LengthRecordedOnce ==
    InCall =>
        /\ \A i \in Batch :
              loc.lengths[i] =
                 (IF FirstEnd(i) = 0 THEN Unset
                  ELSE IF cfg.env.cur_step THEN CurStepAt(i, FirstEnd(i))
                  ELSE FirstEnd(i))
        /\ Returned =>
              /\ \A i \in Batch :
                    /\ loc.lengths[i] # Unset
                    /\ ~cfg.env.cur_step => loc.lengths[i] \in 1 .. cfg.T
              /\ episode_length_history # <<>> =>
                    episode_length_history[Len(episode_length_history)]
                       = Mean(loc.lengths)

C17_Witness ==
    /\ Returned
    /\ cfg.T = 3
    /\ ~cfg.env.cur_step
    /\ episode.myd[1] = <<1, 0, 1>>
    /\ loc.lengths[1] = 1
    /\ episode_length_history = <<[sum |-> 1, n |-> 1]>>

\* the same with an environment that reports cur_step
C17_WitnessCurStep ==
    /\ Returned
    /\ cfg.T = 3
    /\ cfg.env.cur_step
    /\ episode.myd[1] = <<0, 1, 1>>
    /\ loc.lengths[1] = 4

\* what environment b shows after its k-th step of the attempt (k = 0: after
\* its reset)
ObsAfter(b, k) == EnvObs(cfg.env, [envs[b] EXCEPT !.pos = k])
AgOf(ob) == IF ob.dict THEN ob.achieved_goal ELSE 0

\* C18: trajectory entries are snapshots: o[b][0] and ag[b][0] are what
\* environment b's reset returned, o[b][t+1] and ag[b][t+1] are what its step
\* at timestep t returned, and an entry recorded at one timestep is the same
\* at every later point of the attempt, whatever is written to the live
\* buffers afterwards.
C18_Snapshots ==
    InCall =>
        /\ \A b \in Batch :
              /\ \A k \in DOMAIN loc.obs :
                    loc.obs[k][b] = ObsAfter(b, k - 1).observation
              /\ \A k \in DOMAIN loc.achieved_goals :
                    loc.achieved_goals[k][b] = AgOf(ObsAfter(b, k - 1))
        /\ Returned =>
              \A b \in Batch : \A k \in 0 .. cfg.T :
                 /\ episode.o[b][k + 1] = ObsAfter(b, k).observation
                 /\ episode.ag[b][k + 1] = AgOf(ObsAfter(b, k))

C18_Witness ==
    /\ Returned
    /\ cfg.T = 3
    /\ cfg.env.dict
    /\ episode.o[1] = <<0, 1, 2, 3>>
    /\ episode.ag[1] = <<1, 3, 5, 7>>

\* C19: a call given a skill array in which no step faults and no
\* observation is NaN runs exactly T loop iterations and then returns: the
\* environments were reset once (call.resets counts the passes of
\* reset_all_rollouts), after t iterations the policy has been queried t times
\* and every environment stepped t times, the iteration count never passes
\* the horizon and nothing but the horizon ends the loop; a call in which a
\* fault or a NaN happened has not returned a rollout.
C19_ExactlyTIterations ==
    /\ pc = "loop" =>
          /\ Restarts = 0
          /\ call.resets = 1
          /\ loc.t <= cfg.T
          /\ Len(policy_log) = loc.t
          /\ \A i \in Batch : envs[i].pos = loc.t
    /\ Returned =>
          /\ Restarts = 0
          /\ call.resets = 1
          /\ loc.t = cfg.T
          /\ Len(policy_log) = cfg.T
          /\ Len(loc.acts) = cfg.T
          /\ \A i \in Batch : envs[i].pos = cfg.T
    /\ Restarts > 0 => (pc = "raised" /\ episode = NoEpisode)

C19_Witness ==
    /\ Returned
    /\ cfg.T = 3
    /\ n_calls = 1
    /\ Len(policy_log) = 3
    /\ envs[1].pos = 3
    /\ call.resets = 1
    /\ episode.myd[1] = <<1, 1, 0>>

\* a call in which the first attempt faulted: it is over without a rollout
C19_WitnessFault ==
    /\ call.faults = 1
    /\ pc = "raised"
    /\ n_calls = 2
    /\ call.resets = 2

\* a step between two calls of generate_rollouts that is not itself a call:
\* the worker is not inside a rollout and no new call begins
BetweenCalls ==
    /\ pc \in {"idle", "returned", "raised"}
    /\ pc' = pc
    /\ n_calls' = n_calls

\* the first and the last pair of logs(): num_trajs and episode
LogNumTrajs(v) == <<<<"num_trajs">>, v>>
LogEpisode(v) == <<<<"episode">>, v>>

\* C20: clear_history empties the five statistics windows and changes
\* nothing else: n_episodes, the environments, the goal and initial
\* observation buffers stay as they are, so that after it logs() reports
\* num_trajs = 0 while 'episode' is still rollout_batch_size times the number
\* of rollouts completed since construction.
C20_ClearHistoryFrame ==
    [][BetweenCalls =>
          /\ success_history' = <<>>
          /\ Q_history' = <<>>
          /\ episode_length_history' = <<>>
          /\ once_success_history' = <<>>
          /\ return_history' = <<>>
          /\ UNCHANGED <<n_episodes, envs, g, initial_o, initial_ag, cfg,
                         episode, loc, call, policy_log, warnings>>
          /\ logs(<<>>)'[1] = LogNumTrajs(0)
          /\ logs(<<>>)'[Len(log_names)] =
                LogEpisode(cfg.rollout_batch_size * n_rollouts')]_vars

\* a clear after a completed rollout
C20_Witness ==
    /\ Returned
    /\ n_rollouts = 1
    /\ cfg.rollout_batch_size = 2
    /\ histories = <<<<>>, <<>>, <<>>, <<>>, <<>>>>
    /\ logs(<<>>)[1] = LogNumTrajs(0)
    /\ logs(<<>>)[Len(log_names)] = LogEpisode(2)
    /\ envs[1].pos = cfg.T

\* the number of transitions of the episode a transition was sampled from
EpisodeLength(tr) == Len(episode.u[tr.episode_idx])
Relabeled == transitions # NoTransition /\ transitions.her

HerDraws(p) == {d \in Draws : is_her(d, p)}

\* p is k / (k + 1) for 'future' and 0 otherwise
IsFutureP(p, replay_strategy, replay_k) ==
    IF replay_strategy = "future"
    THEN p.num * (replay_k + 1) = replay_k * p.den
    ELSE p.num = 0

\* C14: the sampler's relabeling probability is replay_k / (replay_k + 1)
\* when replay_strategy is 'future' and 0 otherwise, for the replay_strategy
\* and replay_k of the params configure_her was given, and that share of the
\* equally likely draws relabels; with replay_k = 0 or another strategy no
\* sampled transition is relabelled: its goal is the stored goal of the
\* sampled episode and timestep.
C14_RelabelProbability ==
    [][/\ \A f \in Factories :
            (params[f].her_keys /\ ~params'[f].her_keys) =>
               /\ sample_her_transitions'.made
               /\ IsFutureP(sample_her_transitions'.future_p,
                            params[f].replay_strategy, params[f].replay_k)
               /\ LET p == sample_her_transitions'.future_p
                      c == Cardinality(HerDraws(p))
                  IN /\ c * p.den >= p.num * Grid
                     /\ c > 0 => (c - 1) * p.den < p.num * Grid
               /\ (params[f].replay_k = 0 \/ params[f].replay_strategy # "future")
                     => sample_her_transitions'.future_p.num = 0
       /\ transitions' # transitions =>
            (sample_her_transitions.future_p.num = 0 =>
                /\ ~transitions'.her
                /\ transitions'.g =
                      episode.g[transitions'.episode_idx][transitions'.t_sample + 1])
      ]_vars

\* the default replay_k = 0 with 'future': a sampled transition keeps its goal
C14_Witness ==
    /\ n_config_calls = 2
    /\ n_factories = 1
    /\ params[1].replay_strategy = "future"
    /\ params[1].replay_k = 0
    /\ sample_her_transitions.made
    /\ sample_her_transitions.future_p.num = 0
    /\ transitions.episode_idx = 2
    /\ transitions.t_sample = 1
    /\ ~transitions.her
    /\ transitions.g = episode.g[2][2]

\* replay_k = 2 with 'future': two draws in three relabel
C14_WitnessFuture ==
    /\ n_config_calls = 2
    /\ params[1].replay_strategy = "future"
    /\ params[1].replay_k = 2
    /\ sample_her_transitions.future_p = [num |-> 2, den |-> 3]
    /\ Relabeled

\* C15: cached_make_env constructs an environment only when the cache has
\* none for the factory: every factory has been invoked at most once, every
\* call with the same factory returned the same instance, the one the cache
\* holds, whichever of prepare_params, configure_her, configure_dims and
\* configure_ddpg asked, and different factories have different instances.
C15_OneEnvPerFactory ==
    /\ \A f \in Factories :
          /\ make_env_calls[f] <= 1
          /\ (CACHED_ENVS[f] # NoEnv) = (make_env_calls[f] = 1)
          /\ (CACHED_ENVS[f] # NoEnv) = (f <= n_factories)
    /\ \A x \in env_returned :
          /\ x[1] \in Callers
          /\ x[3] # NoEnv
          /\ x[3] = CACHED_ENVS[x[2]]
    /\ \A x, y \in env_returned : (x[2] = y[2]) = (x[3] = y[3])
    /\ n_envs = Cardinality({f \in Factories : CACHED_ENVS[f] # NoEnv})

C15_Witness ==
    /\ n_factories = 2
    /\ make_env_calls[2] = 1
    /\ {<<c, 2, CACHED_ENVS[2]>> : c \in Callers} \subseteq env_returned
    /\ CACHED_ENVS[1] # CACHED_ENVS[2]

\* C21: in every completed rollout an environment whose success flag is
\* positive at the last timestep is counted in once-success (a flag positive
\* at any timestep is, and no other), so with flags in {0, 1} the value
\* appended to once_success_history is at least the value appended to
\* success_history; the success rate is the mean of the success flags of the
\* last timestep alone, also for environments that reported done before it.
C21_OnceSuccessAtLeastSuccess ==
    Returned =>
        /\ \A i \in Batch :
              /\ loc.successes[cfg.T][i] \in {0, 1}
              /\ loc.successes[cfg.T][i] > 0 => loc.once_successes[i] = 1
              /\ (loc.once_successes[i] = 1)
                    = (\E t \in 1 .. cfg.T : loc.successes[t][i] > 0)
              /\ loc.once_successes[i] >= loc.successes[cfg.T][i]
        /\ (success_history # <<>> /\ once_success_history # <<>>) =>
              LET s == success_history[Len(success_history)]
                  o == once_success_history[Len(once_success_history)]
              IN /\ s = Mean(loc.successes[cfg.T])
                 /\ o = Mean(loc.once_successes)
                 /\ o.n = s.n
                 /\ o.sum >= s.sum

\* environment 2 reports done at the first step and success at the last;
\* environment 1 succeeds at the first step only
C21_Witness ==
    /\ Returned
    /\ cfg.T = 2
    /\ cfg.rollout_batch_size = 2
    /\ loc.successes = <<<<1, 0>>, <<0, 1>>>>
    /\ loc.dones[1][2] = 1
    /\ loc.valids[2][2] = 0
    /\ success_history = <<[sum |-> 1, n |-> 2]>>
    /\ once_success_history = <<[sum |-> 2, n |-> 2]>>

====
